---- MODULE Spec2Model ----
(***************************************************************************)
(* aioyookassa/types/payment.py: the pydantic entity classes of the        *)
(* payment API, their construction from a wire (JSON) payload, attribute   *)
(* assignment on a constructed entity and its serialization.               *)
(*                                                                         *)
(* A Python/JSON value is a record [k, v]: k is the kind, v the content    *)
(* (a record with one field named after the kind; for an object, the       *)
(* function from its keys to their values).  Numbers hold their quantity   *)
(* in hundredths (100 is Num = 10000, 100.5 is Num = 10050); a numeric     *)
(* string holds its text as a sequence of characters, so that int() and    *)
(* float() parse it.                                                       *)
(***************************************************************************)
EXTENDS Integers, Sequences, FiniteSets, TLC

VARIABLES pydanticMajor, cls, payload, pc, entity, errors, output, nassign

vars == <<pydanticMajor, cls, payload, pc, entity, errors, output, nassign>>

(* ------------------------------ values -------------------------------- *)

Null == [k |-> "null", v |-> [None |-> TRUE]]
Str(s) == [k |-> "str", v |-> [Text |-> s]]
IntV(n) == [k |-> "int", v |-> [Num |-> n * 100]]
FloatV(h) == [k |-> "float", v |-> [Num |-> h]]
NumStr(chars) == [k |-> "numstr", v |-> [Chars |-> chars]]
Bool(b) == [k |-> "bool", v |-> [Flag |-> b]]
Obj(f) == [k |-> "obj", v |-> f]
List(s) == [k |-> "list", v |-> [Elems |-> s]]
Datetime(t) == [k |-> "datetime", v |-> [At |-> t]]
ModelV(c, f) == [k |-> "model", v |-> [cls |-> c, fields |-> f]]

NoKeys == [z \in {} |-> Null]

(* ------------------------- the field tables --------------------------- *)
(* One descriptor per annotated attribute: name is the canonical name,     *)
(* alias the wire name (Field(alias=...), the name itself otherwise), t/c  *)
(* the annotated type, nullable whether the annotation admits None,        *)
(* required whether the attribute has no default, dflt the default.        *)

Req(name, t, c) ==
    [name |-> name, alias |-> name, t |-> t, c |-> c,
     nullable |-> FALSE, required |-> TRUE, dflt |-> "none"]
Opt(name, t, c) ==
    [name |-> name, alias |-> name, t |-> t, c |-> c,
     nullable |-> TRUE, required |-> FALSE, dflt |-> "none"]
ReqA(name, alias, t, c) == [Req(name, t, c) EXCEPT !.alias = alias]
OptA(name, alias, t, c) == [Opt(name, t, c) EXCEPT !.alias = alias]

ConfirmationFields ==
    << Req("type", "enum", "ConfirmationType"),
       Opt("enforce", "bool", ""),
       Opt("locale", "str", ""),
       Opt("return_url", "str", ""),
       OptA("url", "confirmation_url", "str", "") >>

PaymentAmountFields ==
    << Req("value", "int|float", ""),
       Req("currency", "str", "") >>

RecipientFields ==
    << Req("account_id", "str", ""),
       Req("gateway_id", "str", "") >>

PayerBankDetailsFields ==
    << Req("full_name", "str", ""),
       Req("short_name", "str", ""),
       Req("address", "str", ""),
       Req("inn", "str", ""),
       Req("bank_name", "str", ""),
       Req("bank_branch", "str", ""),
       Req("bank_bik", "str", ""),
       Req("bank_account", "str", ""),
       Opt("kpp", "str", "") >>

VatDataFields ==
    << Req("type", "str", ""),
       Opt("amount", "model", "PaymentAmount"),
       Opt("rate", "str", "") >>

CardInfoFields ==
    << OptA("first_six", "first6", "str", ""),
       ReqA("last_four", "last4", "str", ""),
       Req("expiry_year", "str", ""),
       Req("expiry_month", "str", ""),
       Req("card_type", "str", ""),
       OptA("card_country", "issuer_country", "str", ""),
       OptA("bank_name", "issuer_name", "str", ""),
       Opt("source", "str", "") >>

PaymentMethodFields ==
    << Req("type", "str", ""),
       Req("id", "str", ""),
       Req("saved", "bool", ""),
       Opt("title", "str", ""),
       Opt("login", "str", ""),
       Opt("card", "model", "CardInfo"),
       Opt("phone", "str", ""),
       Opt("payer_bank_details", "model", "PayerBankDetails"),
       Opt("payment_purpose", "str", ""),
       Opt("vat_data", "model", "VatData"),
       Opt("account_number", "str", "") >>

CancellationDetailsFields ==
    << Req("party", "enum", "CancellationParty"),
       Req("reason", "enum", "CancellationReason") >>

ThreeDSInfoFields ==
    << Req("applied", "bool", "") >>

AuthorizationDetailsFields ==
    << OptA("transaction_identifier", "rrn", "str", ""),
       OptA("authorization_code", "auth_code", "str", ""),
       Req("three_d_secure", "model", "ThreeDSInfo") >>

TransferFields_feeRequired ==
    << Req("account_id", "str", ""),
       Req("amount", "model", "PaymentAmount"),
       Req("status", "enum", "PaymentStatus"),
       ReqA("fee_amount", "platform_fee_amount", "model", "PaymentAmount"),
       Opt("description", "str", ""),
       Opt("metadata", "dict", "") >>

(* fee_amount: PaymentAmount = Field(None, alias='platform_fee_amount'):   *)
(* a default of None under an annotation that does not admit None.         *)
TransferFields ==
    << Req("account_id", "str", ""),
       Req("amount", "model", "PaymentAmount"),
       Req("status", "enum", "PaymentStatus"),
       [OptA("fee_amount", "platform_fee_amount", "model", "PaymentAmount")
            EXCEPT !.nullable = FALSE],
       Opt("description", "str", ""),
       Opt("metadata", "dict", "") >>

SettlementFields ==
    << Req("type", "str", ""),
       Req("amount", "model", "PaymentAmount") >>

DealFields ==
    << Req("id", "str", ""),
       Req("settlements", "list", "PaymentAmount") >>

PaymentFields_statusStr ==
    << Req("id", "str", ""),
       Req("status", "str", ""),
       Req("amount", "model", "PaymentAmount"),
       Opt("income_amount", "model", "PaymentAmount"),
       Opt("description", "str", ""),
       Req("recipient", "model", "Recipient"),
       Opt("payment_method", "model", "PaymentMethod"),
       Opt("captured_at", "datetime", ""),
       Req("created_at", "datetime", ""),
       Opt("expires_at", "datetime", ""),
       Opt("confirmation", "model", "Confirmation"),
       Req("test", "bool", ""),
       Opt("refunded_amount", "model", "PaymentAmount"),
       Req("paid", "bool", ""),
       Req("refundable", "bool", ""),
       Opt("receipt_registration", "enum", "ReceiptRegistration"),
       Opt("metadata", "dict", ""),
       Opt("cancellation_details", "model", "CancellationDetails"),
       Opt("authorization_details", "model", "AuthorizationDetails"),
       Opt("transfers", "list", "Transfer"),
       Opt("deal", "model", "Deal"),
       Opt("merchant_customer_id", "str", "") >>

PaymentFields ==
    << Req("id", "str", ""),
       Req("status", "enum", "PaymentStatus"),
       Req("amount", "model", "PaymentAmount"),
       Opt("income_amount", "model", "PaymentAmount"),
       Opt("description", "str", ""),
       Req("recipient", "model", "Recipient"),
       Opt("payment_method", "model", "PaymentMethod"),
       Opt("captured_at", "datetime", ""),
       Req("created_at", "datetime", ""),
       Opt("expires_at", "datetime", ""),
       Opt("confirmation", "model", "Confirmation"),
       Req("test", "bool", ""),
       Opt("refunded_amount", "model", "PaymentAmount"),
       Req("paid", "bool", ""),
       Req("refundable", "bool", ""),
       Opt("receipt_registration", "enum", "ReceiptRegistration"),
       Opt("metadata", "dict", ""),
       Opt("cancellation_details", "model", "CancellationDetails"),
       Opt("authorization_details", "model", "AuthorizationDetails"),
       Opt("transfers", "list", "Transfer"),
       Opt("deal", "model", "Deal"),
       Opt("merchant_customer_id", "str", "") >>

PaymentsListFields_itemsRequired ==
    << ReqA("list", "items", "list", "Payment"),
       Opt("cursor", "str", "") >>

PaymentsListFields ==
    << [OptA("list", "items", "list", "Payment")
            EXCEPT !.nullable = FALSE, !.dflt = "empty_list"],
       Opt("cursor", "str", "") >>

CustomerFields ==
    << Opt("full_name", "str", ""),
       Opt("inn", "str", ""),
       Opt("email", "str", ""),
       Opt("phone", "str", "") >>

MarkQuantityFields ==
    << Req("numerator", "int", ""),
       Req("denominator", "int", "") >>

MarkCodeInfoFields ==
    << OptA("code", "mark_code_raw", "str", ""),
       Opt("unknown", "str", ""),
       Opt("ean_8", "str", ""),
       Opt("ean_13", "str", ""),
       Opt("itf_14", "str", ""),
       Opt("gs_10", "str", ""),
       Opt("gs_1m", "str", ""),
       Opt("short", "str", ""),
       Opt("fur", "str", ""),
       Opt("egais_20", "str", ""),
       Opt("egais_30", "str", "") >>

IndustryDetailsFields ==
    << Req("federal_id", "str", ""),
       Req("document_date", "datetime", ""),
       Req("document_number", "str", ""),
       Req("value", "str", "") >>

PaymentItemFields ==
    << Req("description", "str", ""),
       Req("amount", "model", "PaymentAmount"),
       Req("vat_code", "int", ""),
       Req("quantity", "str", ""),
       Opt("measure", "str", ""),
       Opt("mark_quantity", "model", "MarkQuantity"),
       Opt("payment_subject", "str", ""),
       Opt("payment_mode", "str", ""),
       Opt("country_of_origin_code", "str", ""),
       Opt("customs_declaration_number", "str", ""),
       Opt("excise", "str", ""),
       Opt("product_code", "str", ""),
       Opt("mark_code_info", "model", "MarkCodeInfo"),
       Opt("mark_mode", "str", ""),
       Opt("payment_subject_industry_details", "model", "IndustryDetails") >>

OperationDetailsFields ==
    << ReqA("id", "operation_id", "int", ""),
       Req("value", "str", ""),
       Req("created_at", "datetime", "") >>

ReceiptFields ==
    << Opt("customer", "model", "Customer"),
       Req("items", "list", "PaymentItem"),
       Opt("phone", "str", ""),
       Opt("email", "str", ""),
       Opt("tax_system_code", "int", ""),
       Opt("receipt_industry_details", "model", "IndustryDetails"),
       Opt("receipt_operation_details", "model", "OperationDetails") >>

PassengerFields ==
    << Req("first_name", "str", ""),
       Req("last_name", "str", "") >>

FlightFields ==
    << Req("departure_airport", "str", ""),
       Req("arrival_airport", "str", ""),
       Req("departure_date", "datetime", ""),
       Opt("carrier_code", "str", "") >>

AirlineFields ==
    << Opt("ticket_number", "str", ""),
       Opt("booking_reference", "str", ""),
       Opt("passengers", "list", "Passenger"),
       OptA("flights", "legs", "list", "Flight") >>

Fields(c) ==
    CASE c = "Confirmation" -> ConfirmationFields
      [] c = "PaymentAmount" -> PaymentAmountFields
      [] c = "Recipient" -> RecipientFields
      [] c = "PayerBankDetails" -> PayerBankDetailsFields
      [] c = "VatData" -> VatDataFields
      [] c = "CardInfo" -> CardInfoFields
      [] c = "PaymentMethod" -> PaymentMethodFields
      [] c = "CancellationDetails" -> CancellationDetailsFields
      [] c = "ThreeDSInfo" -> ThreeDSInfoFields
      [] c = "AuthorizationDetails" -> AuthorizationDetailsFields
      [] c = "Transfer" -> TransferFields
      [] c = "Settlement" -> SettlementFields
      [] c = "Deal" -> DealFields
      [] c = "Payment" -> PaymentFields
      [] c = "PaymentsList" -> PaymentsListFields
      [] c = "Customer" -> CustomerFields
      [] c = "MarkQuantity" -> MarkQuantityFields
      [] c = "MarkCodeInfo" -> MarkCodeInfoFields
      [] c = "IndustryDetails" -> IndustryDetailsFields
      [] c = "PaymentItem" -> PaymentItemFields
      [] c = "OperationDetails" -> OperationDetailsFields
      [] c = "Receipt" -> ReceiptFields
      [] c = "Passenger" -> PassengerFields
      [] c = "Flight" -> FlightFields
      [] c = "Airline" -> AirlineFields

(* --------------------------- enumerations ----------------------------- *)
(* aioyookassa/types/enum.py: the closed member sets of the enumerations.  *)

PaymentStatus == {"pending", "waiting_for_capture", "succeeded", "canceled"}
ReceiptRegistration == {"pending", "succeeded", "canceled"}
CancellationParty == {"yoo_money", "payment_network", "merchant"}
CancellationReason == {"3d_secure_failed", "general_decline", "insufficient_funds"}
ConfirmationType == {"redirect", "embedded", "external", "qr", "mobile_application"}

Members(e) ==
    CASE e = "PaymentStatus" -> PaymentStatus
      [] e = "ReceiptRegistration" -> ReceiptRegistration
      [] e = "CancellationParty" -> CancellationParty
      [] e = "CancellationReason" -> CancellationReason
      [] e = "ConfirmationType" -> ConfirmationType

(* ------------------------------ numbers ------------------------------- *)
(* int(text) and float(text) on the characters of a numeric string; the    *)
(* result is the quantity in hundredths.  The fractions drawn below (.00,  *)
(* .25, .50, .75) are exact in binary floating point, so float() of them   *)
(* is the decimal quantity itself.                                         *)

Digits == {"0", "1", "2", "3", "4", "5", "6", "7", "8", "9"}

DigitVal(ch) ==
    CASE ch = "0" -> 0 [] ch = "1" -> 1 [] ch = "2" -> 2 [] ch = "3" -> 3
      [] ch = "4" -> 4 [] ch = "5" -> 5 [] ch = "6" -> 6 [] ch = "7" -> 7
      [] ch = "8" -> 8 [] ch = "9" -> 9

RECURSIVE DigitsVal(_)
DigitsVal(s) ==
    IF s = <<>> THEN 0
    ELSE DigitsVal(SubSeq(s, 1, Len(s) - 1)) * 10 + DigitVal(s[Len(s)])

IsDigits(s) == Len(s) > 0 /\ \A i \in 1..Len(s) : s[i] \in Digits

Unsigned(s) == IF s # <<>> /\ s[1] \in {"-", "+"} THEN Tail(s) ELSE s
Sign(s) == IF s # <<>> /\ s[1] = "-" THEN -1 ELSE 1

IsIntLiteral(s) == IsDigits(Unsigned(s))

DotPos(s) == {i \in 1..Len(s) : s[i] = "."}

IsFloatLiteral(s) ==
    LET u == Unsigned(s) IN
    /\ \A i \in 1..Len(u) : u[i] \in Digits \cup {"."}
    /\ Cardinality(DotPos(u)) <= 1
    /\ \E i \in 1..Len(u) : u[i] \in Digits

ParseInt(s) == IntV(Sign(s) * DigitsVal(Unsigned(s)))

FracHundredths(f) ==
    IF Len(f) = 0 THEN 0
    ELSE IF Len(f) = 1 THEN DigitVal(f[1]) * 10
    ELSE DigitVal(f[1]) * 10 + DigitVal(f[2])

ParseFloat(s) ==
    LET u == Unsigned(s)
        d == IF DotPos(u) = {} THEN Len(u) + 1 ELSE CHOOSE i \in DotPos(u) : TRUE
        whole == SubSeq(u, 1, d - 1)
        frac == SubSeq(u, d + 1, Len(u))
    IN FloatV(Sign(s) * (DigitsVal(whole) * 100 + FracHundredths(frac)))

(* int(x) of a float: truncation toward zero. *)
TruncToInt(h) ==
    IF h >= 0 THEN IntV(h \div 100) ELSE IntV(-((-h) \div 100))

Fail == [errs |-> {<<>>}, val |-> Null]
Pass(x) == [errs |-> {}, val |-> x]

(* value: int | float.  pydantic 1 tries the members of a Union left to    *)
(* right, each with coercion (int first: int(v), then float(v)); pydantic  *)
(* 2 takes the member whose type the input already has, and coerces only   *)
(* when none has.                                                          *)
IntOrFloat(x, major) ==
    CASE x.k = "int" -> Pass(x)
      [] x.k = "float" -> IF major = 1 THEN Pass(TruncToInt(x.v.Num)) ELSE Pass(x)
      [] x.k = "numstr" ->
            IF IsIntLiteral(x.v.Chars) THEN Pass(ParseInt(x.v.Chars))
            ELSE IF IsFloatLiteral(x.v.Chars) THEN Pass(ParseFloat(x.v.Chars))
            ELSE Fail
      [] x.k = "bool" -> Pass(IntV(IF x.v.Flag THEN 1 ELSE 0))
      [] OTHER -> Fail

(* datetime.datetime: the ISO-8601 texts that parse, with the instant      *)
(* <<year, month, day, hour, minute, second, utc offset in minutes>>.      *)
IsoInstant(text) ==
    CASE text = "2018-07-10T14:27:54.691Z" -> <<2018, 7, 10, 14, 27, 54, 0>>
      [] text = "2018-07-17T14:27:54+03:00" -> <<2018, 7, 17, 14, 27, 54, 180>>

IsoTexts == {"2018-07-10T14:27:54.691Z", "2018-07-17T14:27:54+03:00"}

(* ----------------------------- validation ----------------------------- *)

Prefix(key, errs) == {<<key>> \o e : e \in errs}

IdxName(i) == <<"0", "1", "2", "3", "4", "5", "6", "7", "8", "9">>[i]

InputKey_byName(f, obj) == IF f.name \in DOMAIN obj THEN f.name ELSE f.alias

(* The key a field is read from: the alias only (no populate-by-name in    *)
(* any class's configuration).                                             *)
InputKey(f, obj) == f.alias

(* A field whose default is None admits None in pydantic 1 whatever its    *)
(* annotation; in pydantic 2 only the annotation decides.                  *)
NullOk(f, major) ==
    f.nullable \/ (major = 1 /\ ~f.required /\ f.dflt = "none")

Default(f) == IF f.dflt = "empty_list" THEN List(<<>>) ELSE Null

EnumValue(e, x) ==
    IF x.k = "str" /\ x.v.Text \in Members(e) THEN Pass(x) ELSE Fail

Scalar(t, x) ==
    CASE t = "str" -> IF x.k \in {"str", "numstr"} THEN Pass(x) ELSE Fail
      [] t = "bool" -> IF x.k = "bool" THEN Pass(x) ELSE Fail
      [] t = "int" ->
            IF x.k = "int" THEN Pass(x)
            ELSE IF x.k = "numstr" /\ IsIntLiteral(x.v.Chars) THEN Pass(ParseInt(x.v.Chars))
            ELSE Fail
      [] t = "dict" -> IF x.k = "obj" THEN Pass(x) ELSE Fail
      [] t = "datetime" ->
            IF x.k = "str" /\ x.v.Text \in IsoTexts
            THEN Pass(Datetime(IsoInstant(x.v.Text))) ELSE Fail

RECURSIVE ValidateModel(_, _, _)
RECURSIVE ValidateValue(_, _, _, _)

ValidateField_skipMissing(f, obj, major) ==
    LET key == InputKey(f, obj) IN
    IF key \in DOMAIN obj
    THEN IF obj[key].k = "null"
         THEN IF NullOk(f, major) THEN Pass(Null)
              ELSE [errs |-> {<<f.alias>>}, val |-> Null]
         ELSE LET r == ValidateValue(f.t, f.c, obj[key], major)
              IN [errs |-> Prefix(f.alias, r.errs), val |-> r.val]
    ELSE Pass(Default(f))

ValidateField(f, obj, major) ==
    LET key == InputKey(f, obj) IN
    IF key \in DOMAIN obj
    THEN IF obj[key].k = "null"
         THEN IF NullOk(f, major) THEN Pass(Null)
              ELSE [errs |-> {<<f.alias>>}, val |-> Null]
         ELSE LET r == ValidateValue(f.t, f.c, obj[key], major)
              IN [errs |-> Prefix(f.alias, r.errs), val |-> r.val]
    ELSE IF f.required THEN [errs |-> {<<f.alias>>}, val |-> Null]
         ELSE Pass(Default(f))

ValidateValue(t, c, x, major) ==
    CASE t = "model" ->
            IF x.k = "obj" THEN ValidateModel(c, x.v, major) ELSE Fail
      [] t = "list" ->
            IF x.k = "list"
            THEN LET n == Len(x.v.Elems)
                     r == [i \in 1..n |-> ValidateValue("model", c, x.v.Elems[i], major)]
                     errs == UNION {Prefix(IdxName(i), r[i].errs) : i \in 1..n}
                 IN [errs |-> errs,
                     val |-> IF errs = {} THEN List([i \in 1..n |-> r[i].val])
                             ELSE Null]
            ELSE Fail
      [] t = "enum" -> EnumValue(c, x)
      [] t = "int|float" -> IntOrFloat(x, major)
      [] OTHER -> Scalar(t, x)

(* BaseModel.__init__: every field is validated; any error fails the whole *)
(* construction, and the entity holds its fields under canonical names.    *)
ValidateModel(c, obj, major) ==
    LET fs == Fields(c)
        n == Len(fs)
        r == [i \in 1..n |-> ValidateField(fs[i], obj, major)]
        errs == UNION {r[i].errs : i \in 1..n}
    IN [errs |-> errs,
        val |-> IF errs = {}
                THEN ModelV(c, [name \in {fs[i].name : i \in 1..n} |->
                                  r[CHOOSE i \in 1..n : fs[i].name = name].val])
                ELSE Null]

(* ---------------------------- serialization --------------------------- *)
(* BaseModel.dict(by_alias=...): every field is emitted, under its         *)
(* canonical name unless by_alias is given; nested entities and lists of   *)
(* entities are converted in turn, other values are emitted as held.       *)

DumpKey(f, by_alias) == IF by_alias THEN f.alias ELSE f.name

RECURSIVE Dump(_, _)
Dump(x, by_alias) ==
    CASE x.k = "model" ->
            LET fs == Fields(x.v.cls)
                n == Len(fs)
            IN Obj([key \in {DumpKey(fs[i], by_alias) : i \in 1..n} |->
                      Dump(x.v.fields[
                             fs[CHOOSE i \in 1..n :
                                   DumpKey(fs[i], by_alias) = key].name],
                           by_alias)])
      [] x.k = "list" ->
            List([i \in 1..Len(x.v.Elems) |-> Dump(x.v.Elems[i], by_alias)])
      [] OTHER -> x

(* ------------------------------ payloads ------------------------------ *)
(* The wire payloads a construction is given: the documented shape of each *)
(* entity, and its variations (keys missing at any depth, explicit nulls,  *)
(* values outside an enumeration, a canonical name beside or instead of    *)
(* the wire name, the representations of an amount).                       *)

MaxMissing == 1
MaxItems == 2
MaxAssign == 1

IdxOf(name) == CHOOSE i \in 1..10 : IdxName(i) = name

RECURSIVE Paths(_)
Paths(x) ==
    CASE x.k = "obj" ->
            UNION {{<<key>>} \cup Prefix(key, Paths(x.v[key])) : key \in DOMAIN x.v}
      [] x.k = "list" ->
            UNION {Prefix(IdxName(i), Paths(x.v.Elems[i])) : i \in 1..Len(x.v.Elems)}
      [] OTHER -> {}

RECURSIVE RemoveAt(_, _)
RemoveAt(x, p) ==
    IF x.k = "obj"
    THEN IF Len(p) = 1
         THEN Obj([key \in DOMAIN x.v \ {p[1]} |-> x.v[key]])
         ELSE Obj([x.v EXCEPT ![p[1]] = RemoveAt(@, Tail(p))])
    ELSE List([x.v.Elems EXCEPT ![IdxOf(p[1])] = RemoveAt(@, Tail(p))])

RECURSIVE PutAt(_, _, _)
PutAt(x, p, y) ==
    IF x.k = "obj"
    THEN IF Len(p) = 1
         THEN Obj([key \in DOMAIN x.v \cup {p[1]} |->
                     IF key = p[1] THEN y ELSE x.v[key]])
         ELSE Obj([x.v EXCEPT ![p[1]] = PutAt(@, Tail(p), y)])
    ELSE List([x.v.Elems EXCEPT ![IdxOf(p[1])] = PutAt(@, Tail(p), y)])

RECURSIVE ValueAt(_, _)
ValueAt(x, p) ==
    IF p = <<>> THEN x
    ELSE IF x.k = "obj" THEN ValueAt(x.v[p[1]], Tail(p))
    ELSE ValueAt(x.v.Elems[IdxOf(p[1])], Tail(p))

(* The keys of a payload that hold a required field of its class.         *)
RECURSIVE RequiredPaths(_, _)
RequiredPaths(c, x) ==
    LET fs == Fields(c)
        here == {i \in 1..Len(fs) : fs[i].alias \in DOMAIN x.v}
        Sub(f, y) ==
            CASE f.t = "model" /\ y.k = "obj" -> RequiredPaths(f.c, y)
              [] f.t = "list" /\ y.k = "list" ->
                    UNION {Prefix(IdxName(j), RequiredPaths(f.c, y.v.Elems[j])) :
                             j \in {m \in 1..Len(y.v.Elems) : y.v.Elems[m].k = "obj"}}
              [] OTHER -> {}
    IN UNION {(IF fs[i].required THEN {<<fs[i].alias>>} ELSE {})
                \cup Prefix(fs[i].alias, Sub(fs[i], x.v[fs[i].alias])) : i \in here}

(* Up to n required keys removed, at any depth. *)
RECURSIVE Removals(_, _, _)
Removals(c, x, n) ==
    IF n = 0 THEN {x}
    ELSE LET prev == Removals(c, x, n - 1)
         IN prev \cup {RemoveAt(y, p) : <<y, p>> \in
                          UNION {{<<z, q>> : q \in RequiredPaths(c, z)} : z \in prev}}

(* Any one key removed, at any depth. *)
Dropped(x) == {RemoveAt(x, p) : p \in Paths(x)}

Nulled(x) == {PutAt(x, p, Null) : p \in Paths(x)}

AmountValues ==
    { IntV(100), IntV(0), IntV(-1),
      FloatV(10050), FloatV(25), FloatV(-150),
      NumStr(<<"1", "0", "0">>),
      NumStr(<<"1", "0", "0", ".", "0", "0">>),
      NumStr(<<"1", "0", "0", ".", "5", "0">>),
      NumStr(<<"-", "1", ".", "2", "5">>),
      NumStr(<<"0", ".", "7", "5">>) }

AmountObj(x) == Obj([value |-> x, currency |-> Str("RUB")])

AmountPaths(x) == {p \in Paths(x) : p[Len(p)] = "value" /\ ValueAt(x, p).k = "numstr"}

Amounts(x) == {PutAt(x, p, y) : p \in AmountPaths(x), y \in AmountValues}

Rub100 == AmountObj(NumStr(<<"1", "0", "0", ".", "0", "0">>))

RecipientDoc == Obj([account_id |-> Str("100500"), gateway_id |-> Str("100700")])

CardInfoDoc ==
    Obj([first6 |-> Str("411111"), last4 |-> Str("1111"),
         expiry_year |-> Str("2030"), expiry_month |-> Str("12"),
         card_type |-> Str("Visa"), issuer_country |-> Str("RU"),
         issuer_name |-> Str("Sberbank")])

PaymentMethodDoc ==
    Obj([type |-> Str("bank_card"), id |-> Str("pm-1"), saved |-> Bool(FALSE),
         title |-> Str("Bank card *1111"), card |-> CardInfoDoc])

ConfirmationDoc ==
    Obj([type |-> Str("redirect"), return_url |-> Str("https://shop/return"),
         confirmation_url |-> Str("https://pay/confirm")])

AuthorizationDetailsDoc ==
    Obj([rrn |-> Str("10000000000"), auth_code |-> Str("000000"),
         three_d_secure |-> Obj([applied |-> Bool(TRUE)])])

TransferDoc ==
    Obj([account_id |-> Str("123"), amount |-> Rub100,
         status |-> Str("succeeded"), platform_fee_amount |-> Rub100])

TransferNoFeeDoc == RemoveAt(TransferDoc, <<"platform_fee_amount">>)

SettlementDoc == Obj([type |-> Str("payout"), amount |-> Rub100])

DealDoc == Obj([id |-> Str("dl-1"), settlements |-> List(<<SettlementDoc>>)])

DealOfAmounts == Obj([id |-> Str("dl-1"), settlements |-> List(<<Rub100>>)])

PaymentMinimal ==
    Obj([id |-> Str("pay-1"), status |-> Str("pending"), amount |-> Rub100,
         recipient |-> RecipientDoc,
         created_at |-> Str("2018-07-10T14:27:54.691Z"),
         test |-> Bool(FALSE), paid |-> Bool(FALSE), refundable |-> Bool(FALSE)])

PaymentSucceeded ==
    Obj([id |-> Str("pay-2"), status |-> Str("succeeded"), amount |-> Rub100,
         income_amount |-> Rub100, description |-> Str("Order 72"),
         recipient |-> RecipientDoc, payment_method |-> PaymentMethodDoc,
         captured_at |-> Str("2018-07-17T14:27:54+03:00"),
         created_at |-> Str("2018-07-10T14:27:54.691Z"),
         test |-> Bool(FALSE), refunded_amount |-> Rub100,
         paid |-> Bool(TRUE), refundable |-> Bool(TRUE),
         metadata |-> Obj(NoKeys),
         authorization_details |-> AuthorizationDetailsDoc,
         transfers |-> List(<<TransferNoFeeDoc>>)])

PaymentCanceled ==
    Obj([id |-> Str("pay-3"), status |-> Str("canceled"), amount |-> Rub100,
         recipient |-> RecipientDoc,
         created_at |-> Str("2018-07-10T14:27:54.691Z"),
         expires_at |-> Str("2018-07-17T14:27:54+03:00"),
         confirmation |-> ConfirmationDoc,
         test |-> Bool(TRUE), paid |-> Bool(FALSE), refundable |-> Bool(FALSE),
         receipt_registration |-> Str("pending"),
         cancellation_details |->
             Obj([party |-> Str("merchant"), reason |-> Str("general_decline")])])

PaymentWithDeal == PutAt(PaymentMinimal, <<"deal">>, DealDoc)

RECURSIVE Repeat(_, _)
Repeat(x, n) == IF n = 0 THEN <<>> ELSE Append(Repeat(x, n - 1), x)

PaymentsListDocs ==
    {Obj([items |-> List(Repeat(PaymentMinimal, n))]) : n \in 0..MaxItems}
      \cup {Obj([type |-> Str("list"),
                 items |-> List(<<PaymentMinimal, PaymentCanceled>>),
                 cursor |-> Str("c-1")]),
            Obj([type |-> Str("list"), items |-> List(<<>>),
                 next_cursor |-> Str("c-2")])}

OperationDetailsDoc ==
    Obj([operation_id |-> IntV(7), value |-> Str("op"),
         created_at |-> Str("2018-07-10T14:27:54.691Z")])

MarkCodeInfoDoc == Obj([mark_code_raw |-> Str("010460"), gs_1m |-> Str("DFGwNDY")])

FlightDoc ==
    Obj([departure_airport |-> Str("LED"), arrival_airport |-> Str("AMS"),
         departure_date |-> Str("2018-07-17T14:27:54+03:00")])

AirlineDoc ==
    Obj([ticket_number |-> Str("5554916004417"),
         passengers |->
             List(<<Obj([first_name |-> Str("SERGEI"), last_name |-> Str("IVANOV")])>>),
         legs |-> List(<<FlightDoc>>)])

ReceiptDoc ==
    Obj([customer |-> Obj([email |-> Str("a@b.c")]),
         items |-> List(<<Obj([description |-> Str("Item"), amount |-> Rub100,
                               vat_code |-> IntV(2), quantity |-> Str("1.00"),
                               mark_code_info |-> MarkCodeInfoDoc])>>),
         receipt_operation_details |-> OperationDetailsDoc])

Docs(c) ==
    CASE c = "Payment" -> {PaymentMinimal, PaymentSucceeded, PaymentCanceled, PaymentWithDeal}
      [] c = "PaymentsList" -> PaymentsListDocs
      [] c = "PaymentAmount" -> {Rub100}
      [] c = "CardInfo" -> {CardInfoDoc}
      [] c = "Confirmation" -> {ConfirmationDoc}
      [] c = "AuthorizationDetails" -> {AuthorizationDetailsDoc}
      [] c = "Transfer" -> {TransferDoc, TransferNoFeeDoc}
      [] c = "Deal" -> {DealDoc, DealOfAmounts}
      [] c = "OperationDetails" -> {OperationDetailsDoc}
      [] c = "MarkCodeInfo" -> {MarkCodeInfoDoc}
      [] c = "Airline" -> {AirlineDoc}
      [] c = "Receipt" -> {ReceiptDoc}

Classes ==
    {"Payment", "PaymentsList", "PaymentAmount", "CardInfo", "Confirmation",
     "AuthorizationDetails", "Transfer", "Deal", "OperationDetails",
     "MarkCodeInfo", "Airline", "Receipt"}

(* A value of the field's kind other than the one the documents carry.     *)
OtherValue(f) ==
    CASE f.t = "str" -> Str("other")
      [] f.t = "int" -> IntV(99)
      [] f.t = "model" -> AmountObj(IntV(5))
      [] f.t = "list" -> List(<<>>)

Aliased(c) == {i \in 1..Len(Fields(c)) : Fields(c)[i].alias # Fields(c)[i].name}

(* The canonical name supplied beside the wire name, or instead of it.     *)
Canonical(c, x) ==
    LET fs == Fields(c) IN
    {PutAt(x, <<fs[i].name>>, OtherValue(fs[i])) : i \in Aliased(c)}
      \cup {PutAt(RemoveAt(x, <<fs[i].alias>>), <<fs[i].name>>, OtherValue(fs[i])) :
              i \in {j \in Aliased(c) : fs[j].alias \in DOMAIN x.v}}

(* The closed-set fields: <<class, wire name, enumeration>>. *)
ClosedSetFields ==
    { <<"Confirmation", "type", "ConfirmationType">>,
      <<"CancellationDetails", "party", "CancellationParty">>,
      <<"CancellationDetails", "reason", "CancellationReason">>,
      <<"Transfer", "status", "PaymentStatus">>,
      <<"Payment", "status", "PaymentStatus">>,
      <<"Payment", "receipt_registration", "ReceiptRegistration">> }

Under(key, es) == {[e EXCEPT !.path = <<key>> \o @] : e \in es}

(* The places of a payload, at any depth, that hold a closed-set field.    *)
RECURSIVE EnumPaths(_, _)
EnumPaths(c, x) ==
    LET fs == Fields(c)
        here == {i \in 1..Len(fs) : fs[i].alias \in DOMAIN x.v}
        Sub(f, y) ==
            CASE f.t = "model" /\ y.k = "obj" -> EnumPaths(f.c, y)
              [] f.t = "list" /\ y.k = "list" ->
                    UNION {Under(IdxName(j), EnumPaths(f.c, y.v.Elems[j])) :
                             j \in {m \in 1..Len(y.v.Elems) : y.v.Elems[m].k = "obj"}}
              [] OTHER -> {}
    IN {[path |-> <<t[2]>>, enum |-> t[3]] :
           t \in {u \in ClosedSetFields : u[1] = c /\ u[2] \in DOMAIN x.v}}
         \cup UNION {Under(fs[i].alias, Sub(fs[i], x.v[fs[i].alias])) : i \in here}

Unknowns(c, x) == {PutAt(x, e.path, Str("unknown_member")) : e \in EnumPaths(c, x)}

Payloads(c) ==
    UNION {Removals(c, x, MaxMissing) \cup Dropped(x) \cup Nulled(x) \cup Amounts(x)
             \cup Canonical(c, x) \cup Unknowns(c, x) : x \in Docs(c)}

(* ---------------------------- the operations -------------------------- *)

Init ==
    /\ pydanticMajor \in {1, 2}
    /\ cls \in Classes
    /\ payload \in Payloads(cls)
    /\ pc = "start"
    /\ entity = Null
    /\ errors = {}
    /\ output = Null
    /\ nassign = 0

\* The construction of an entity of class cls from the payload's keys.
Construct ==
    /\ pc = "start"
    /\ LET r == ValidateModel(cls, payload.v, pydanticMajor) IN
       IF r.errs = {}
       THEN pc' = "constructed" /\ entity' = r.val /\ errors' = errors
       ELSE pc' = "failed" /\ entity' = entity /\ errors' = r.errs
    /\ UNCHANGED <<pydanticMajor, cls, payload, output, nassign>>

AssignValues == {Str("changed")}

(* entity.name = x: no class configures frozen or validate_assignment.     *)
SetAttr(name, x) ==
    /\ pc = "constructed"
    /\ nassign < MaxAssign
    /\ name \in DOMAIN entity.v.fields
    /\ entity' = [entity EXCEPT !.v.fields[name] = x]
    /\ nassign' = nassign + 1
    /\ UNCHANGED <<pydanticMajor, cls, payload, pc, errors, output>>

(* entity.dict(by_alias=by_alias) *)
DumpDict(by_alias) ==
    /\ pc = "constructed"
    /\ output = Null
    /\ output' = Dump(entity, by_alias)
    /\ UNCHANGED <<pydanticMajor, cls, payload, pc, entity, errors, nassign>>

FieldNames == UNION {{Fields(c)[i].name : i \in 1..Len(Fields(c))} : c \in Classes}

Next ==
    \/ Construct
    \/ \E name \in FieldNames, x \in AssignValues : SetAttr(name, x)
    \/ \E by_alias \in BOOLEAN : DumpDict(by_alias)

Spec == Init /\ [][Next]_vars

(* ------------------------------ the claims ---------------------------- *)

Built == pc = "constructed" /\ nassign = 0
Attr(name) == entity.v.fields[name]

(* The quantity a numeric input denotes, in hundredths. *)
Quantity(x) == IF x.k = "numstr" THEN ParseFloat(x.v.Chars).v.Num ELSE x.v.Num

IsNumber(x) ==
    \/ x.k \in {"int", "float"}
    \/ x.k = "numstr" /\ IsFloatLiteral(x.v.Chars)

IsAmountObj(x) ==
    /\ x.k = "obj"
    /\ DOMAIN x.v = {"value", "currency"}
    /\ IsNumber(x.v.value)
    /\ x.v.currency.k = "str"

WireNames(c) == {Fields(c)[i].alias : i \in 1..Len(Fields(c))}

AliasedEntities ==
    {"Payment", "CardInfo", "Confirmation", "AuthorizationDetails", "Transfer",
     "OperationDetails", "MarkCodeInfo", "Airline", "PaymentsList"}

(* C1: for every valid wire payload of an aliased entity, parsing succeeds *)
(* and the serialized entity has wire names as its keys and, under every   *)
(* key of the input, the input's value.                                    *)
C1_RoundTrip ==
    (pc # "start" /\ cls \in AliasedEntities /\ payload \in Docs(cls)
        /\ "deal" \notin DOMAIN payload.v)
    => /\ pc = "constructed"
       /\ (output # Null /\ nassign = 0)
          => /\ DOMAIN output.v \subseteq WireNames(cls)
             /\ \A key \in DOMAIN payload.v :
                   key \in DOMAIN output.v /\ output.v[key] = payload.v[key]

(* The paths at which a payload lacks a field that its class requires. *)
RECURSIVE Lacking(_, _)
Lacking(c, x) ==
    LET fs == Fields(c)
        Sub(f, y) ==
            CASE f.t = "model" /\ y.k = "obj" -> Lacking(f.c, y)
              [] f.t = "list" /\ y.k = "list" ->
                    UNION {Prefix(IdxName(j), Lacking(f.c, y.v.Elems[j])) :
                             j \in {m \in 1..Len(y.v.Elems) : y.v.Elems[m].k = "obj"}}
              [] OTHER -> {}
    IN UNION {IF fs[i].alias \in DOMAIN x.v
              THEN Prefix(fs[i].alias, Sub(fs[i], x.v[fs[i].alias]))
              ELSE IF fs[i].required THEN {<<fs[i].alias>>} ELSE {} :
              i \in 1..Len(fs)}

(* C2: a payload that lacks a mandatory field at any depth fails to        *)
(* construct, the failure names the path of every such field, and no       *)
(* entity is produced.                                                     *)
C2_MissingMandatoryFails ==
    (pc # "start" /\ Lacking(cls, payload) # {})
    => /\ pc = "failed"
       /\ entity = Null
       /\ Lacking(cls, payload) \subseteq errors

C2_Witness ==
    /\ pc = "failed"
    /\ cls = "Payment"
    /\ Lacking(cls, payload) = {<<"payment_method", "card", "last4">>}

(* C3: a PaymentAmount whose value is an integer, a decimal number or a    *)
(* decimal string constructs, and its value is the input's quantity.       *)
C3_ValueExact ==
    (pc # "start" /\ cls = "PaymentAmount" /\ IsAmountObj(payload))
    => /\ pc = "constructed"
       /\ nassign = 0 => Attr("value").v.Num = Quantity(payload.v.value)

(* C4: a string outside the member set of a closed-set field fails the     *)
(* construction and the failure names the field; the documented succeeded  *)
(* payment, which has no cancellation_details key, constructs, and every   *)
(* constructed payment without that key has cancellation_details null.     *)
C4_ClosedSets ==
    /\ \A e \in (IF pc = "start" THEN {} ELSE EnumPaths(cls, payload)) :
          LET x == ValueAt(payload, e.path) IN
          (x.k = "str" /\ x.v.Text \notin Members(e.enum))
          => pc = "failed" /\ e.path \in errors
    /\ (cls = "Payment" /\ payload = PaymentSucceeded /\ pc # "start")
       => pc = "constructed"
    /\ (cls = "Payment" /\ Built /\ "cancellation_details" \notin DOMAIN payload.v)
       => Attr("cancellation_details") = Null

C4_Witness ==
    /\ pc = "failed"
    /\ cls = "Payment"
    /\ payload = PutAt(PaymentSucceeded, <<"status">>, Str("unknown_member"))

(* What an entity's field holds of a composite wire value: the elements of *)
(* a list one for one, the currency of an amount.                          *)
Holds(f, held, given) ==
    CASE f.t \in {"str", "int"} -> held = given
      [] f.t = "list" ->
            held.k = "list" /\ Len(held.v.Elems) = Len(given.v.Elems)
      [] f.t = "model" ->
            /\ held.k = "model"
            /\ held.v.cls = f.c
            /\ held.v.fields.currency = given.v.currency

(* C5: the canonical field of a constructed entity holds the value given   *)
(* under the wire name, also when the payload gives another value under    *)
(* the canonical name.                                                     *)
C5_WireNameRead ==
    Built =>
      /\ \A i \in Aliased(cls) :
            LET f == Fields(cls)[i] IN
            (f.alias \in DOMAIN payload.v /\ payload.v[f.alias].k # "null")
            => Holds(f, Attr(f.name), payload.v[f.alias])
      /\ (cls = "Payment" /\ "payment_method" \in DOMAIN payload.v
             /\ payload.v.payment_method.k = "obj"
             /\ "card" \in DOMAIN payload.v.payment_method.v
             /\ payload.v.payment_method.v.card.k = "obj")
         => /\ Attr("payment_method").v.fields.card.v.fields.last_four
                 = payload.v.payment_method.v.card.v.last4
            /\ "first6" \in DOMAIN payload.v.payment_method.v.card.v
               => Attr("payment_method").v.fields.card.v.fields.first_six
                    = payload.v.payment_method.v.card.v.first6

C5_Witness ==
    /\ Built
    /\ cls = "CardInfo"
    /\ {"first6", "first_six", "last4"} \subseteq DOMAIN payload.v
    /\ payload.v.first6 = Str("411111")
    /\ payload.v.first_six # payload.v.first6
    /\ Attr("first_six") = Str("411111")
    /\ Attr("last_four") = Str("1111")

(* C6: a PaymentsList payload with neither items nor cursor constructs,    *)
(* with list the empty sequence and cursor null.                           *)
C6_EmptyList ==
    (cls = "PaymentsList" /\ pc # "start"
        /\ DOMAIN payload.v \cap {"items", "cursor"} = {})
    => /\ pc = "constructed"
       /\ nassign = 0 => /\ Attr("list") = List(<<>>)
                         /\ Attr("cursor") = Null

C6_Witness ==
    /\ cls = "PaymentsList"
    /\ Built
    /\ DOMAIN payload.v \cap {"items", "cursor"} = {}
    /\ Attr("list") = List(<<>>)

(* C7: a Transfer payload with a valid account_id, amount and status and   *)
(* no platform_fee_amount key constructs, with fee_amount null.            *)
C7_FeeOptional ==
    (cls = "Transfer" /\ pc # "start"
        /\ "platform_fee_amount" \notin DOMAIN payload.v
        /\ {"account_id", "amount", "status"} \subseteq DOMAIN payload.v
        /\ payload.v.account_id.k = "str"
        /\ IsAmountObj(payload.v.amount)
        /\ payload.v.status.k = "str"
        /\ payload.v.status.v.Text \in PaymentStatus)
    => /\ pc = "constructed"
       /\ nassign = 0 => Attr("fee_amount") = Null

C7_Witness ==
    /\ cls = "Transfer"
    /\ Built
    /\ payload = TransferNoFeeDoc
    /\ Attr("fee_amount") = Null

(* C8: once constructed, an entity keeps the value of every field through  *)
(* every later operation.                                                  *)
C8_Immutable ==
    [][(pc = "constructed" /\ pc' = "constructed") => entity' = entity]_vars

(* The amounts an entity holds, directly or nested. *)
RECURSIVE AmountsIn(_)
AmountsIn(x) ==
    CASE x.k = "model" ->
            (IF x.v.cls = "PaymentAmount" THEN {x} ELSE {})
              \cup UNION {AmountsIn(x.v.fields[name]) : name \in DOMAIN x.v.fields}
      [] x.k = "list" -> UNION {AmountsIn(x.v.Elems[i]) : i \in 1..Len(x.v.Elems)}
      [] OTHER -> {}

(* C9: every PaymentAmount of a constructed entity, the entity itself or   *)
(* one nested in it, has a non-negative value.                             *)
C9_NonNegative ==
    Built => \A a \in AmountsIn(entity) : a.v.fields.value.v.Num >= 0

(* C10: a Deal whose settlements have the Settlement shape (a type and an  *)
(* amount) constructs, and each element of settlements exposes that type   *)
(* and amount.                                                             *)
C10_DealOfSettlements ==
    (cls = "Deal" /\ payload = DealDoc /\ pc # "start")
    => /\ pc = "constructed"
       /\ nassign = 0 =>
            \A i \in 1..Len(Attr("settlements").v.Elems) :
               LET held == Attr("settlements").v.Elems[i].v.fields
                   given == payload.v.settlements.v.Elems[i].v
               IN /\ "type" \in DOMAIN held /\ held.type = given.type
                  /\ "amount" \in DOMAIN held
                  /\ held.amount.v.fields.currency = given.amount.v.currency

====
